---- MODULE Spec2Model ----
(***************************************************************************)
(* Model of the Anki MCP server (src/index.ts): the text normalizer        *)
(* cleanWithRegex, the card query engine findCardsAndOrder, the resource   *)
(* handlers and the tool dispatcher (CallToolRequestSchema handler).       *)
(*                                                                         *)
(* Strings the code inspects character by character (card HTML, resource   *)
(* URIs, filters) are sequences of one-character strings.  Messages the    *)
(* code builds from templates are sequences of their parts.                *)
(***************************************************************************)
EXTENDS Integers, Sequences, FiniteSets, TLC

VARIABLES
  pc,          \* "idle" | "await" (suspended on a backend call) | "done"
  req,         \* the request being served
  handler,     \* the switch case the dispatcher routed req to
  cont,        \* the code position the pending backend call resumes at
  calls,       \* backend calls issued while serving req, in order
  replies,     \* the backend's replies to calls, in order
  cardIds,     \* findCardsAndOrder: the identifiers findCards returned
  info,        \* findCardsAndOrder: the records cardsInfo returned
  cards,       \* findCardsAndOrder: its return value
  resp,        \* the outcome handed to the protocol shell
  htmlString,  \* normalizer run: the raw input
  cleaned      \* normalizer run: the outputs of successive applications

vars == <<pc, req, handler, cont, calls, replies, cardIds, info, cards, resp,
          htmlString, cleaned>>

serverVars == <<pc, req, handler, cont, calls, replies, cardIds, info, cards, resp>>

\* no request in progress: the state after construction and after each response
ServerIdle ==
  /\ pc = "idle"
  /\ req = [kind |-> "none"]
  /\ handler = "none"
  /\ cont = "none"
  /\ calls = <<>>
  /\ replies = <<>>
  /\ cardIds = <<>>
  /\ info = <<>>
  /\ cards = <<>>
  /\ resp = [status |-> "none"]

-----------------------------------------------------------------------------
(* Bounds of the model *)

MaxCards == 3      \* identifiers / detail records per backend reply
MaxBatch == 3      \* items of an update_cards / ease-factor batch
MaxNum == 2        \* largest requested count |num|
MaxFrags == 3      \* fragments concatenated into a normalizer input

-----------------------------------------------------------------------------
(* Character-level helpers *)

Min(S) == CHOOSE m \in S : \A n \in S : m <= n

\* s has the literal p at position i
IsPrefixAt(s, i, p) ==
  /\ i + Len(p) - 1 <= Len(s)
  /\ \A k \in 1..Len(p) : s[i + k - 1] = p[k]

\* the /i flag: letters compare by their lower-case form
Lower(c) ==
  CASE c = "S" -> "s" [] c = "T" -> "t" [] c = "Y" -> "y"
    [] c = "L" -> "l" [] c = "E" -> "e" [] OTHER -> c

IsPrefixAtCI(s, i, p) ==
  /\ i + Len(p) - 1 <= Len(s)
  /\ \A k \in 1..Len(p) : Lower(s[i + k - 1]) = p[k]

\* first index >= i holding c, or 0
FindFrom(s, i, c) ==
  LET S == {j \in i..Len(s) : s[j] = c}
  IN IF S = {} THEN 0 ELSE Min(S)

-----------------------------------------------------------------------------
(* cleanWithRegex, src/index.ts:121-144 *)

StyleOpen == <<"<", "s", "t", "y", "l", "e">>
StyleClose == <<"<", "/", "s", "t", "y", "l", "e", ">">>
DivOpen == <<"<", "d", "i", "v">>
PlayOpen == <<"[", "a", "n", "k", "i", ":", "p", "l", "a", "y", ":">>

\* /<style[^>]*>[\s\S]*?<\/style>/gi : length of the match at i, 0 if none
StyleMatchLen(s, i) ==
  IF ~IsPrefixAtCI(s, i, StyleOpen) THEN 0
  ELSE LET j == FindFrom(s, i + Len(StyleOpen), ">")
       IN IF j = 0 THEN 0
          ELSE LET K == {k \in (j + 1)..Len(s) : IsPrefixAtCI(s, k, StyleClose)}
               IN IF K = {} THEN 0 ELSE Min(K) + Len(StyleClose) - i

\* /<div[^>]*>/g
DivMatchLen(s, i) ==
  IF ~IsPrefixAt(s, i, DivOpen) THEN 0
  ELSE LET j == FindFrom(s, i + Len(DivOpen), ">")
       IN IF j = 0 THEN 0 ELSE j - i + 1

\* /<[^>]+>/g
TagMatchLen(s, i) ==
  IF s[i] # "<" THEN 0
  ELSE LET j == FindFrom(s, i + 1, ">")
       IN IF j = 0 \/ j = i + 1 THEN 0 ELSE j - i + 1

\* /\[anki:play:[^\]]+\]/g
PlayMatchLen(s, i) ==
  IF ~IsPrefixAt(s, i, PlayOpen) THEN 0
  ELSE LET j == FindFrom(s, i + Len(PlayOpen), "]")
       IN IF j = 0 \/ j = i + Len(PlayOpen) THEN 0 ELSE j - i + 1

NbspMatchLen(s, i) == IF IsPrefixAt(s, i, <<"&", "n", "b", "s", "p", ";">>) THEN 6 ELSE 0
AmpMatchLen(s, i) == IF IsPrefixAt(s, i, <<"&", "a", "m", "p", ";">>) THEN 5 ELSE 0
LtMatchLen(s, i) == IF IsPrefixAt(s, i, <<"&", "l", "t", ";">>) THEN 4 ELSE 0
GtMatchLen(s, i) == IF IsPrefixAt(s, i, <<"&", "g", "t", ";">>) THEN 4 ELSE 0
QuotMatchLen(s, i) == IF IsPrefixAt(s, i, <<"&", "q", "u", "o", "t", ";">>) THEN 6 ELSE 0

\* the length of the match of pattern pat at position i of s, 0 if none
MatchLen(pat, s, i) ==
  CASE pat = "style" -> StyleMatchLen(s, i)
    [] pat = "div" -> DivMatchLen(s, i)
    [] pat = "tag" -> TagMatchLen(s, i)
    [] pat = "play" -> PlayMatchLen(s, i)
    [] pat = "nbsp" -> NbspMatchLen(s, i)
    [] pat = "amp" -> AmpMatchLen(s, i)
    [] pat = "lt" -> LtMatchLen(s, i)
    [] pat = "gt" -> GtMatchLen(s, i)
    [] OTHER -> QuotMatchLen(s, i)

\* String.prototype.replace(regex /g, rep): scan left to right, replace each
\* leftmost match, continue after it (the replacement is never re-scanned).
RECURSIVE ReplaceAll(_, _, _, _)
ReplaceAll(pat, rep, s, i) ==
  IF i > Len(s) THEN <<>>
  ELSE LET n == MatchLen(pat, s, i)
       IN IF n > 0 THEN rep \o ReplaceAll(pat, rep, s, i + n)
          ELSE <<s[i]>> \o ReplaceAll(pat, rep, s, i + 1)

\* String.prototype.replace without /g: only the first match is replaced
RECURSIVE ReplaceFirst(_, _, _, _)
ReplaceFirst(pat, rep, s, i) ==
  IF i > Len(s) THEN <<>>
  ELSE LET n == MatchLen(pat, s, i)
       IN IF n > 0 THEN rep \o SubSeq(s, i + n, Len(s))
          ELSE <<s[i]>> \o ReplaceFirst(pat, rep, s, i + 1)

RemoveStyle(s) == ReplaceAll("style", <<>>, s, 1)
DivToNewline(s) == ReplaceAll("div", <<"\n">>, s, 1)

\* the tag pattern written without the g flag
StripTagsFirstOnly(s) == ReplaceFirst("tag", <<" ">>, s, 1)

StripTags(s) == ReplaceAll("tag", <<" ">>, s, 1)
RemovePlay(s) == ReplaceAll("play", <<>>, s, 1)

DecodeEntities(s) ==
  LET s1 == ReplaceAll("nbsp", <<" ">>, s, 1)
      s2 == ReplaceAll("amp", <<"&">>, s1, 1)
      s3 == ReplaceAll("lt", <<"<">>, s2, 1)
      s4 == ReplaceAll("gt", <<">">>, s3, 1)
  IN ReplaceAll("quot", <<"\"">>, s4, 1)

\* String.prototype.split("\n")
RECURSIVE SplitLines(_)
SplitLines(s) ==
  LET j == FindFrom(s, 1, "\n")
  IN IF j = 0 THEN <<s>>
     ELSE <<SubSeq(s, 1, j - 1)>> \o SplitLines(SubSeq(s, j + 1, Len(s)))

IsWhite(c) == c \in {" ", "\t", "\r", "\n"}

\* String.prototype.trim
Trim(line) ==
  LET N == {k \in 1..Len(line) : ~IsWhite(line[k])}
  IN IF N = {} THEN <<>>
     ELSE SubSeq(line, Min(N), CHOOSE m \in N : \A n \in N : n <= m)

\* Array.prototype.join("\n")
RECURSIVE JoinLines(_)
JoinLines(ls) ==
  IF ls = <<>> THEN <<>>
  ELSE IF Len(ls) = 1 THEN ls[1]
  ELSE ls[1] \o <<"\n">> \o JoinLines(Tail(ls))

Reflow(s) ==
  LET ls == SplitLines(s)
      trimmed == [k \in 1..Len(ls) |-> Trim(ls[k])]
  IN JoinLines(SelectSeq(trimmed, LAMBDA l : Len(l) > 0))

cleanWithRegex(s) ==
  Reflow(DecodeEntities(RemovePlay(StripTags(DivToNewline(RemoveStyle(s))))))

-----------------------------------------------------------------------------
(* Resource URIs: new URL(uri).pathname, split("/").pop(),                 *)
(* decodeURIComponent; src/index.ts:75-82                                  *)

\* printable ASCII, code 32 first (code 96 is written GRAVE)
Ascii ==
  << " ", "!", "\"", "#", "$", "%", "&", "'", "(", ")", "*", "+", ",", "-", ".", "/",
     "0", "1", "2", "3", "4", "5", "6", "7", "8", "9", ":", ";", "<", "=", ">", "?",
     "@", "A", "B", "C", "D", "E", "F", "G", "H", "I", "J", "K", "L", "M", "N", "O",
     "P", "Q", "R", "S", "T", "U", "V", "W", "X", "Y", "Z", "[", "\\", "]", "^", "_",
     "GRAVE", "a", "b", "c", "d", "e", "f", "g", "h", "i", "j", "k", "l", "m", "n", "o",
     "p", "q", "r", "s", "t", "u", "v", "w", "x", "y", "z", "{", "|", "}", "~" >>

Chr(code) == Ascii[code - 31]
Ord(c) == 31 + CHOOSE k \in 1..Len(Ascii) : Ascii[k] = c

HexDigits == <<"0", "1", "2", "3", "4", "5", "6", "7", "8", "9",
               "A", "B", "C", "D", "E", "F">>
IsHex(c) == \E k \in 1..16 : HexDigits[k] = c \/
                             (k > 10 /\ Chr(Ord(HexDigits[k]) + 32) = c)
HexVal(c) == (CHOOSE k \in 1..16 : HexDigits[k] = c \/
                                   (k > 10 /\ Chr(Ord(HexDigits[k]) + 32) = c)) - 1
HexChar(v) == HexDigits[v + 1]

\* first index >= i holding '?' or '#', or Len(s) + 1
PathEnd(s, i) ==
  LET S == {j \in i..Len(s) : s[j] \in {"?", "#"}}
  IN IF S = {} THEN Len(s) + 1 ELSE Min(S)

\* the URL parser's path percent-encode set, within printable ASCII
InPathEncodeSet(c) == c \in {" ", "\"", "<", ">", "GRAVE", "{", "}"}

RECURSIVE PathEncode(_)
PathEncode(s) ==
  IF s = <<>> THEN <<>>
  ELSE (IF InPathEncodeSet(s[1])
        THEN <<"%", HexChar(Ord(s[1]) \div 16), HexChar(Ord(s[1]) % 16)>>
        ELSE <<s[1]>>) \o PathEncode(Tail(s))

\* new URL(uri): [ok, pathname].  A URI without a scheme does not parse.
\* After "scheme://" comes the host, up to the first '/', '?' or '#'; the
\* path runs from there to the first '?' or '#'.  Dot segments are not
\* among the modelled inputs.
ParseURL(uri) ==
  LET colon == FindFrom(uri, 1, ":")
  IN IF colon < 2 \/ ~IsPrefixAt(uri, colon + 1, <<"/", "/">>)
     THEN [ok |-> FALSE, pathname |-> <<>>]
     ELSE LET hostStart == colon + 3
              stop == PathEnd(uri, hostStart)
              slash == FindFrom(uri, hostStart, "/")
              pathStart == IF slash = 0 \/ slash > stop THEN stop ELSE slash
          IN [ok |-> TRUE,
              pathname |-> PathEncode(SubSeq(uri, pathStart, stop - 1))]

\* pathname.split("/").pop()
LastSegment(pathname) ==
  LET S == {j \in 1..Len(pathname) : pathname[j] = "/"}
  IN IF S = {} THEN pathname
     ELSE SubSeq(pathname, (CHOOSE m \in S : \A n \in S : n <= m) + 1, Len(pathname))

\* decodeURIComponent: [ok, value]; ok = FALSE is the URIError it throws.
\* One-byte escapes decode to the character of that code; a two-byte UTF-8
\* sequence decodes to one character, written "U+" and its code point;
\* a lone continuation byte or a lead byte without continuation is
\* malformed.  Longer sequences are not among the modelled inputs.
RECURSIVE decodeURIComponent(_)
decodeURIComponent(s) ==
  IF s = <<>> THEN [ok |-> TRUE, value |-> <<>>]
  ELSE IF s[1] # "%"
  THEN LET rest == decodeURIComponent(Tail(s))
       IN [ok |-> rest.ok, value |-> <<s[1]>> \o rest.value]
  ELSE IF Len(s) < 3 \/ ~IsHex(s[2]) \/ ~IsHex(s[3])
  THEN [ok |-> FALSE, value |-> <<>>]
  ELSE LET b == 16 * HexVal(s[2]) + HexVal(s[3])
       IN IF b < 128
          THEN LET rest == decodeURIComponent(SubSeq(s, 4, Len(s)))
               IN [ok |-> rest.ok,
                   value |-> <<IF b >= 32 /\ b <= 126 THEN Chr(b)
                               ELSE "U+" \o ToString(b)>> \o rest.value]
          ELSE IF b < 194 \/ b > 223 \/ Len(s) < 6 \/ s[4] # "%"
                  \/ ~IsHex(s[5]) \/ ~IsHex(s[6])
          THEN [ok |-> FALSE, value |-> <<>>]
          ELSE LET b2 == 16 * HexVal(s[5]) + HexVal(s[6])
                   rest == decodeURIComponent(SubSeq(s, 7, Len(s)))
               IN IF b2 < 128 \/ b2 > 191
                  THEN [ok |-> FALSE, value |-> <<>>]
                  ELSE [ok |-> rest.ok,
                        value |-> <<"U+" \o ToString((b - 192) * 64 + (b2 - 128))>>
                                  \o rest.value]

-----------------------------------------------------------------------------
(* Catalogs: src/index.ts:46-69 (resources), 149-472 (tools) *)

Chars_anki == <<"a", "n", "k", "i", ":", "/", "/", "s", "e", "a", "r", "c", "h">>
Chars_isdue == <<"i", "s", ":", "d", "u", "e">>
Chars_isnew == <<"i", "s", ":", "n", "e", "w">>
Chars_undefined == <<"u", "n", "d", "e", "f", "i", "n", "e", "d">>

ResourceCatalog ==
  << Chars_anki \o <<"/", "d", "e", "c", "k", ":", "c", "u", "r", "r", "e", "n", "t">>,
     Chars_anki \o <<"/">> \o Chars_isdue,
     Chars_anki \o <<"/">> \o Chars_isnew >>

\* the names of the descriptors listTools returns, in order
ToolCatalog ==
  << "update_cards", "add_card", "get_due_cards", "get_new_cards", "list_decks",
     "list_decks_with_ids", "create_deck", "delete_decks", "get_deck_stats",
     "move_cards_to_deck", "get_cards_info", "suspend_cards", "unsuspend_cards",
     "check_suspended_status", "check_due_status", "forget_cards",
     "get_ease_factors", "set_ease_factors", "get_all_cards_in_deck" >>

CatalogNames == {ToolCatalog[k] : k \in 1..Len(ToolCatalog)}

-----------------------------------------------------------------------------
(* Values *)

EmptyBag == [f \in {} |-> 0]

\* the properties of bag among fields that are defined
Pick(bag, fields) == [f \in (fields \cap DOMAIN bag) |-> bag[f]]

\* String(args.f): an absent property converts to "undefined"
StringOf(bag, f) == IF f \in DOMAIN bag THEN bag[f] ELSE Chars_undefined

\* Number(args.f): an absent property converts to NaN
NumberOf(bag, f) ==
  IF f \in DOMAIN bag THEN [nan |-> FALSE, v |-> bag[f]] ELSE [nan |-> TRUE, v |-> 0]

RECURSIVE Digits(_)
Digits(n) == IF n < 10 THEN <<HexDigits[n + 1]>>
             ELSE Digits(n \div 10) \o <<HexDigits[(n % 10) + 1]>>

\* Array.prototype.join(", ") of numbers, as message parts
RECURSIVE JoinIds(_)
JoinIds(ids) ==
  IF ids = <<>> THEN <<>>
  ELSE IF Len(ids) = 1 THEN <<ToString(ids[1])>>
  ELSE <<ToString(ids[1]), ", ">> \o JoinIds(Tail(ids))

\* Array.prototype.join(", ") of strings
RECURSIVE JoinNames(_)
JoinNames(names) ==
  IF names = <<>> THEN <<>>
  ELSE IF Len(names) = 1 THEN names[1]
  ELSE names[1] \o <<",", " ">> \o JoinNames(Tail(names))

\* JSON.stringify(cards): one object per card, properties in the order the
\* projection creates them
JSONstringify(cs) ==
  [k \in 1..Len(cs) |->
     <<"{\"cardId\":", cs[k].cardId, ",\"question\":", cs[k].question,
       ",\"answer\":", cs[k].answer, ",\"due\":", cs[k].due, "}">>]

\* Array.prototype.slice(0, end)
Slice0(cs, end) ==
  LET len == Len(cs)
      rel == IF end.nan THEN 0 ELSE end.v
      final == IF rel < 0 THEN (IF len + rel > 0 THEN len + rel ELSE 0)
               ELSE (IF rel < len THEN rel ELSE len)
  IN SubSeq(cs, 1, final)

-----------------------------------------------------------------------------
(* findCardsAndOrder, src/index.ts:98-118 *)

\* the comparator written the other way round
CompareDescending(a, b) == b.due - a.due

\* (a, b) => a.due - b.due
Compare(a, b) == a.due - b.due

\* Array.prototype.sort is stable: an element is placed after every element
\* already placed that does not compare greater than it
RECURSIVE InsertSorted(_, _)
InsertSorted(sorted, x) ==
  IF sorted = <<>> THEN <<x>>
  ELSE IF Compare(sorted[Len(sorted)], x) > 0
  THEN Append(InsertSorted(SubSeq(sorted, 1, Len(sorted) - 1), x), sorted[Len(sorted)])
  ELSE Append(sorted, x)

RECURSIVE SortFrom(_, _, _)
SortFrom(sorted, xs, k) ==
  IF k > Len(xs) THEN sorted ELSE SortFrom(InsertSorted(sorted, xs[k]), xs, k + 1)

Sort(xs) == SortFrom(<<>>, xs, 1)

\* .map((card) => ({cardId, question: cleanWithRegex(..), answer: .., due}))
Project(card) ==
  [cardId |-> card.cardId,
   question |-> cleanWithRegex(card.question),
   answer |-> cleanWithRegex(card.answer),
   due |-> card.due]

ProjectAll(recs) == [k \in 1..Len(recs) |-> Project(recs[k])]

-----------------------------------------------------------------------------
(* The tool dispatcher, src/index.ts:477-796 *)

\* what a handler does up to its first suspension
Throw(msg) == [kind |-> "throw", msg |-> msg]
Call(op, arg, at) == [kind |-> "call", op |-> op, arg |-> arg, cont |-> at]

TypeErrorMsg(prop) ==
  <<"Cannot read properties of undefined (reading '", prop, "')">>

\* a catch clause that rethrows the error as it came
WrapErrorBare(name, msg) == msg

\* the catch clause appends the message to the tool name (lines 789-795)
WrapError(name, msg) == <<"Error in tool ", name, ": ">> \o msg

NoArgumentsMsg(name) == <<"No arguments provided for tool: ", name>>
UnknownToolMsg(name) == <<"Unknown tool: ", name>>
LengthMismatchMsg == <<"Cards and easeFactors arrays must have the same length">>
FailedUpdateMsg(ids) == <<"Failed to update cards with IDs: ">> \o JoinIds(ids)

DeckQuery(deckName) ==
  <<"d", "e", "c", "k", ":", "\"">> \o deckName \o <<"\"">>

NoteQuery(noteId) == <<"n", "i", "d", ":">> \o Digits(noteId)

\* a length check that lets unequal arrays through when one is empty
SetEaseFactorsUnchecked(args) ==
  IF "cards" \notin DOMAIN args \/ "easeFactors" \notin DOMAIN args
  THEN Throw(TypeErrorMsg("length"))
  ELSE IF Len(args.cards) # Len(args.easeFactors) /\ Len(args.easeFactors) # 0
  THEN Throw(LengthMismatchMsg)
  ELSE Call("setEaseFactors", Pick(args, {"cards", "easeFactors"}), "simple")

\* case "set_ease_factors", lines 751-759
SetEaseFactorsStart(args) ==
  IF "cards" \notin DOMAIN args \/ "easeFactors" \notin DOMAIN args
  THEN Throw(TypeErrorMsg("length"))
  ELSE IF Len(args.cards) # Len(args.easeFactors)
  THEN Throw(LengthMismatchMsg)
  ELSE Call("setEaseFactors", Pick(args, {"cards", "easeFactors"}), "simple")

\* a switch that has lost its last case
RouteWithoutLastCase(name) ==
  IF name \in CatalogNames \ {"get_all_cards_in_deck"} THEN name ELSE "default"

\* switch (name): the case label taken, lines 485-787
Route(name) ==
  CASE name = "update_cards" -> "update_cards"
    [] name = "add_card" -> "add_card"
    [] name = "get_due_cards" -> "get_due_cards"
    [] name = "get_new_cards" -> "get_new_cards"
    [] name = "list_decks" -> "list_decks"
    [] name = "list_decks_with_ids" -> "list_decks_with_ids"
    [] name = "create_deck" -> "create_deck"
    [] name = "delete_decks" -> "delete_decks"
    [] name = "get_deck_stats" -> "get_deck_stats"
    [] name = "move_cards_to_deck" -> "move_cards_to_deck"
    [] name = "get_cards_info" -> "get_cards_info"
    [] name = "suspend_cards" -> "suspend_cards"
    [] name = "unsuspend_cards" -> "unsuspend_cards"
    [] name = "check_suspended_status" -> "check_suspended_status"
    [] name = "check_due_status" -> "check_due_status"
    [] name = "forget_cards" -> "forget_cards"
    [] name = "get_ease_factors" -> "get_ease_factors"
    [] name = "set_ease_factors" -> "set_ease_factors"
    [] name = "get_all_cards_in_deck" -> "get_all_cards_in_deck"
    [] OTHER -> "default"

\* the code of a case up to its first await (or its throw)
CaseStart(label, name, args) ==
  CASE label = "update_cards" ->
         Call("answerCards", Pick(args, {"answers"}), "update_cards")
    [] label = "add_card" ->
         Call("addNote",
              [note |-> [deckName |-> "Default",
                         fields |-> [Back |-> StringOf(args, "back"),
                                     Front |-> StringOf(args, "front")],
                         modelName |-> "Basic"]],
              "add_card:addNote")
    [] label = "get_due_cards" ->
         Call("findCards", [query |-> Chars_isdue], "findCardsAndOrder:findCards")
    [] label = "get_new_cards" ->
         Call("findCards", [query |-> Chars_isnew], "findCardsAndOrder:findCards")
    [] label = "list_decks" -> Call("deckNames", EmptyBag, "simple")
    [] label = "list_decks_with_ids" -> Call("deckNamesAndIds", EmptyBag, "simple")
    [] label = "create_deck" ->
         Call("createDeck", [deck |-> StringOf(args, "deck")], "simple")
    [] label = "delete_decks" ->
         Call("deleteDecks", Pick(args, {"decks"}) @@ [cardsToo |-> TRUE], "simple")
    [] label = "get_deck_stats" ->
         Call("getDeckStats", Pick(args, {"decks"}), "simple")
    [] label = "move_cards_to_deck" ->
         Call("changeDeck",
              Pick(args, {"cards"}) @@ [deck |-> StringOf(args, "deck")], "simple")
    [] label = "get_cards_info" -> Call("cardsInfo", Pick(args, {"cards"}), "simple")
    [] label = "suspend_cards" -> Call("suspend", Pick(args, {"cards"}), "simple")
    [] label = "unsuspend_cards" -> Call("unsuspend", Pick(args, {"cards"}), "simple")
    [] label = "check_suspended_status" ->
         Call("areSuspended", Pick(args, {"cards"}), "simple")
    [] label = "check_due_status" -> Call("areDue", Pick(args, {"cards"}), "simple")
    [] label = "forget_cards" -> Call("forgetCards", Pick(args, {"cards"}), "simple")
    [] label = "get_ease_factors" ->
         Call("getEaseFactors", Pick(args, {"cards"}), "simple")
    [] label = "set_ease_factors" -> SetEaseFactorsStart(args)
    [] label = "get_all_cards_in_deck" ->
         Call("findCards", [query |-> DeckQuery(StringOf(args, "deck"))],
              "findCardsAndOrder:findCards")
    [] OTHER -> Throw(UnknownToolMsg(name))

\* the code of a one-call case after its await: the success text, or a throw
CaseFinish(label, args, result) ==
  CASE label \in {"list_decks", "list_decks_with_ids", "get_deck_stats",
                  "get_cards_info", "check_suspended_status", "check_due_status",
                  "get_ease_factors"} ->
         [kind |-> "return", text |-> <<"JSON ", result>>]
    [] label = "create_deck" ->
         [kind |-> "return",
          text |-> <<"Created deck \"">> \o StringOf(args, "deck")
                   \o <<"\" with ID: ", result>>]
    [] label = "delete_decks" ->
         IF "decks" \notin DOMAIN args THEN Throw(TypeErrorMsg("join"))
         ELSE [kind |-> "return",
               text |-> <<"Deleted decks: ">> \o JoinNames(args.decks)]
    [] label = "move_cards_to_deck" ->
         IF "cards" \notin DOMAIN args THEN Throw(TypeErrorMsg("length"))
         ELSE [kind |-> "return",
               text |-> <<"Moved ", ToString(Len(args.cards)), " cards to deck \"">>
                        \o StringOf(args, "deck") \o <<"\"">>]
    [] label \in {"suspend_cards", "unsuspend_cards", "forget_cards"} ->
         IF "cards" \notin DOMAIN args THEN Throw(TypeErrorMsg("length"))
         ELSE [kind |-> "return",
               text |-> <<CASE label = "suspend_cards" -> "Suspended "
                            [] label = "unsuspend_cards" -> "Unsuspended "
                            [] OTHER -> "Reset ",
                          ToString(Len(args.cards)),
                          IF label = "forget_cards" THEN " cards to new status: "
                          ELSE " cards: ">> \o JoinIds(args.cards)]
    [] OTHER ->   \* set_ease_factors
         [kind |-> "return",
          text |-> <<"Set ease factors for ", ToString(Len(args.cards)), " cards">>]

\* the filter predicate without its negation
FailedIndicesInverted(answers, result) ==
  {k \in 1..Len(answers) : k <= Len(result) /\ result[k]}

\* answers.filter((_, index) => !result[index]) as indices
FailedIndices(answers, result) ==
  {k \in 1..Len(answers) : ~(k <= Len(result) /\ result[k])}

SeqOfSet(S) == \* the members of a set of indices in increasing order
  LET F[T \in SUBSET S] ==
        IF T = {} THEN <<>>
        ELSE LET m == CHOOSE x \in T : \A y \in T : y <= x
             IN Append(F[T \ {m}], m)
  IN F[S]

\* case "update_cards" after answerCards resolved, lines 490-509
UpdateCardsFinish(args, result) ==
  IF "answers" \notin DOMAIN args THEN Throw(TypeErrorMsg("filter"))
  ELSE LET answers == args.answers
           failedIdx == SeqOfSet(FailedIndices(answers, result))
           okIdx == SeqOfSet((1..Len(answers)) \ FailedIndices(answers, result))
           successfulCards == [k \in 1..Len(okIdx) |-> answers[okIdx[k]].cardId]
           failedCardIds == [k \in 1..Len(failedIdx) |-> answers[failedIdx[k]].cardId]
       IN IF Len(failedIdx) > 0
          THEN Throw(FailedUpdateMsg(failedCardIds))
          ELSE [kind |-> "return",
                text |-> <<"Updated cards ">> \o JoinIds(successfulCards)]

\* the slice dropped from get_due_cards / get_new_cards
FinishQueryNoSlice(r, cs) ==
  IF r.kind = "read"
  THEN [status |-> "ok", uri |-> r.uri, mimeType |-> "application/json",
        text |-> JSONstringify(cs)]
  ELSE [status |-> "ok", text |-> JSONstringify(cs)]

\* what the caller of findCardsAndOrder does with its result:
\* lines 86-94, 546-553, 560-567, 776-783
FinishQuery(r, cs) ==
  IF r.kind = "read"
  THEN [status |-> "ok", uri |-> r.uri, mimeType |-> "application/json",
        text |-> JSONstringify(cs)]
  ELSE IF r.name \in {"get_due_cards", "get_new_cards"}
  THEN [status |-> "ok", text |-> JSONstringify(Slice0(cs, NumberOf(r.args, "num")))]
  ELSE [status |-> "ok", text |-> JSONstringify(cs)]

\* an error leaving a handler: inside the dispatcher's try block it is
\* caught and wrapped; the resource handler has no try block
Failure(r, msg) ==
  [status |-> "error",
   message |-> IF r.kind = "call" THEN WrapError(r.name, msg) ELSE msg]

\* the resource handler read without the decoding step
ReadResourceStartNoDecode(uri) ==
  LET url == ParseURL(uri)
  IN IF ~url.ok THEN Throw(<<"Invalid URL">>)
     ELSE LET query == LastSegment(url.pathname)
          IN IF query = <<>> THEN Throw(<<"Invalid resource URI">>)
             ELSE Call("findCards", [query |-> query], "findCardsAndOrder:findCards")

\* ReadResourceRequestSchema handler up to its first await, lines 75-84
ReadResourceStart(uri) ==
  LET url == ParseURL(uri)
  IN IF ~url.ok THEN Throw(<<"Invalid URL">>)
     ELSE LET query == LastSegment(url.pathname)
          IN IF query = <<>> THEN Throw(<<"Invalid resource URI">>)
             ELSE LET dec == decodeURIComponent(query)
                  IN IF ~dec.ok THEN Throw(<<"URI malformed">>)
                     ELSE Call("findCards", [query |-> dec.value],
                               "findCardsAndOrder:findCards")

\* a dispatcher that looks at the name before it looks for the arguments
CallToolStartRouteFirst(name, hasArgs, args) ==
  IF Route(name) = "default"
  THEN [label |-> "default", caught |-> TRUE, step |-> Throw(UnknownToolMsg(name))]
  ELSE IF ~hasArgs
  THEN [label |-> "none", caught |-> FALSE, step |-> Throw(NoArgumentsMsg(name))]
  ELSE [label |-> Route(name), caught |-> TRUE,
        step |-> CaseStart(Route(name), name, args)]

\* CallToolRequestSchema handler up to its first await, lines 478-788:
\* the case taken, whether the try block encloses the step, and the step
CallToolStart(name, hasArgs, args) ==
  IF ~hasArgs
  THEN [label |-> "none", caught |-> FALSE, step |-> Throw(NoArgumentsMsg(name))]
  ELSE [label |-> Route(name), caught |-> TRUE,
        step |-> CaseStart(Route(name), name, args)]

\* findCardsAndOrder without its early return
FindCardsContinueAlways(ids) ==
  Call("cardsInfo", [cards |-> ids], "findCardsAndOrder:cardsInfo")

\* findCardsAndOrder fetching the details of the first identifier only
FindCardsContinueFirstOnly(ids) ==
  IF Len(ids) = 0 THEN [kind |-> "return", cards |-> <<>>]
  ELSE Call("cardsInfo", [cards |-> <<ids[1]>>], "findCardsAndOrder:cardsInfo")

\* findCardsAndOrder after findCards resolved, lines 104-108
FindCardsContinue(ids) ==
  IF Len(ids) = 0 THEN [kind |-> "return", cards |-> <<>>]
  ELSE Call("cardsInfo", [cards |-> ids], "findCardsAndOrder:cardsInfo")

-----------------------------------------------------------------------------
(* Requests and backend replies the model draws from *)

CardIdSet == 1..MaxCards
DueValues == {-1, 0, 7}
BatchCardIds == {1, 2}
Eases == {3}
EaseFactorValues == {1300, 2500}
NoteIds == {7, 12}
BackendErrors == {<<"fetch failed">>}
DeckNames == {<<"A">>, <<"B", " ", "C">>}

SeqsUpTo(S, n) == UNION {[1..k -> S] : k \in 0..n}

\* findCards replies: distinct identifiers in any order
IdLists == {s \in SeqsUpTo(CardIdSet, MaxCards) :
              \A i, j \in 1..Len(s) : i # j => s[i] # s[j]}

RawTexts ==
  << <<"<", "b", ">", "Q", "&", "l", "t", ";">>,
     <<"A", "<", "d", "i", "v", ">", "B">>,
     <<"[", "a", "n", "k", "i", ":", "p", "l", "a", "y", ":", "x", "]", " ", "Q">> >>

RawQuestion(id) == RawTexts[((id - 1) % 3) + 1]
RawAnswer(id) == RawTexts[(id % 3) + 1]

\* cardsInfo replies: one record per identifier, any due values
InfoLists(ids) ==
  {[k \in 1..Len(ids) |->
      [cardId |-> ids[k], question |-> RawQuestion(ids[k]),
       answer |-> RawAnswer(ids[k]), due |-> d[k]]] :
     d \in [1..Len(ids) -> DueValues]}

AnswerLists == SeqsUpTo([cardId : BatchCardIds, ease : Eases], MaxBatch)

UriTails ==
  { <<>>,
    <<"/">>,
    <<"/">> \o Chars_isdue,
    <<"/", "i", "s", "%", "3", "A", "n", "e", "w">>,
    <<"/", "d", "e", "c", "k", "%", "3", "a", "%", "2", "2", "A", "%", "2", "0", "B", "%", "2", "2">>,
    <<"/", "t", "a", "g", ":", "a", " ", "b">>,
    <<"/", "x", "/">> \o Chars_isnew,
    <<"/">> \o Chars_isdue \o <<"/">>,
    <<"/">> \o Chars_isdue \o <<"?", "x", "/", "y">>,
    <<"/", "%", "2", "5">>,
    <<"/", "%">>,
    <<"/", "%", "z", "z">>,
    <<"/", "%", "A", "0">> }

ReadUris == {Chars_anki \o t : t \in UriTails} \cup {Chars_isdue, <<"i", "s", "d", "u", "e">>}

ToolNames == CatalogNames \cup {"review_cards", "Update_Cards"}

CardArgs == {[cards |-> <<>>], [cards |-> <<1>>], [cards |-> <<2, 1>>]}

Bags(name) ==
  {EmptyBag} \cup
  CASE name = "update_cards" -> {[answers |-> a] : a \in AnswerLists}
    [] name = "add_card" -> {[front |-> <<"Q">>, back |-> <<"<", "b", ">", "A">>]}
    [] name \in {"get_due_cards", "get_new_cards"} ->
         {[num |-> n] : n \in (0 - MaxNum)..MaxNum}
    [] name \in {"create_deck", "get_all_cards_in_deck"} ->
         {[deck |-> d] : d \in DeckNames}
    [] name \in {"delete_decks", "get_deck_stats"} ->
         {[decks |-> <<d>>] : d \in DeckNames}
    [] name = "move_cards_to_deck" ->
         {c @@ [deck |-> <<"A">>] : c \in CardArgs}
    [] name = "set_ease_factors" ->
         {[cards |-> c, easeFactors |-> e] :
            c \in SeqsUpTo(BatchCardIds, MaxBatch), e \in SeqsUpTo(EaseFactorValues, MaxBatch)}
    [] name \in {"list_decks", "list_decks_with_ids"} -> {}
    [] name \in CatalogNames -> CardArgs
    [] OTHER -> {[cards |-> <<1>>]}

-----------------------------------------------------------------------------
(* The server: one request is served at a time; a handler runs from one    *)
(* await to the next in one step.                                          *)

Init ==
  /\ ServerIdle
  /\ htmlString = <<>>
  /\ cleaned = <<>>

\* the response of a handler that threw before its first await
Thrown(r, caught, step) ==
  IF caught THEN Failure(r, step.msg) ELSE [status |-> "error", message |-> step.msg]

\* ListResourcesRequestSchema handler, lines 46-69
ListResources ==
  /\ pc = "idle"
  /\ req' = [kind |-> "listResources"]
  /\ resp' = [status |-> "ok", resources |-> ResourceCatalog]
  /\ pc' = "done"
  /\ UNCHANGED <<handler, cont, calls, replies, cardIds, info, cards, htmlString, cleaned>>

\* ListToolsRequestSchema handler, lines 149-472
ListTools ==
  /\ pc = "idle"
  /\ req' = [kind |-> "listTools"]
  /\ resp' = [status |-> "ok", tools |-> ToolCatalog]
  /\ pc' = "done"
  /\ UNCHANGED <<handler, cont, calls, replies, cardIds, info, cards, htmlString, cleaned>>

\* ReadResourceRequestSchema handler, lines 74-95, to its first await
ReadResource ==
  /\ pc = "idle"
  /\ \E uri \in ReadUris :
       LET r == [kind |-> "read", uri |-> uri]
           step == ReadResourceStart(uri)
       IN /\ req' = r
          /\ IF step.kind = "throw"
             THEN /\ pc' = "done"
                  /\ resp' = Thrown(r, FALSE, step)
                  /\ UNCHANGED <<calls, cont>>
             ELSE /\ pc' = "await"
                  /\ calls' = <<[op |-> step.op, arg |-> step.arg]>>
                  /\ cont' = step.cont
                  /\ UNCHANGED resp
  /\ UNCHANGED <<handler, replies, cardIds, info, cards, htmlString, cleaned>>

\* CallToolRequestSchema handler, lines 477-796, to its first await
CallTool ==
  /\ pc = "idle"
  /\ \E name \in ToolNames, hasArgs \in BOOLEAN :
       \E args \in (IF hasArgs THEN Bags(name) ELSE {EmptyBag}) :
         LET r == [kind |-> "call", name |-> name, hasArgs |-> hasArgs, args |-> args]
             start == CallToolStart(name, hasArgs, args)
         IN /\ req' = r
            /\ handler' = start.label
            /\ IF start.step.kind = "throw"
               THEN /\ pc' = "done"
                    /\ resp' = Thrown(r, start.caught, start.step)
                    /\ UNCHANGED <<calls, cont>>
               ELSE /\ pc' = "await"
                    /\ calls' = <<[op |-> start.step.op, arg |-> start.step.arg]>>
                    /\ cont' = start.step.cont
                    /\ UNCHANGED resp
  /\ UNCHANGED <<replies, cardIds, info, cards, htmlString, cleaned>>

\* the handler ends: with a thrown error or with a response
End(out) ==
  /\ pc' = "done"
  /\ cont' = "none"
  /\ resp' = IF out.kind = "throw" THEN Failure(req, out.msg)
             ELSE [status |-> "ok", text |-> out.text]

\* the pending backend call rejects: the error propagates out of the handler
BackendError ==
  /\ pc = "await"
  /\ \E e \in BackendErrors :
       /\ replies' = Append(replies, [ok |-> FALSE, error |-> e])
       /\ End(Throw(e))
  /\ UNCHANGED <<req, handler, calls, cardIds, info, cards, htmlString, cleaned>>

\* answerCards resolves; update_cards runs to its end
AnswerCardsReply ==
  /\ pc = "await" /\ cont = "update_cards"
  /\ LET n == IF "answers" \in DOMAIN req.args THEN Len(req.args.answers) ELSE 0
     IN \E result \in [1..n -> BOOLEAN] :
          /\ replies' = Append(replies, [ok |-> TRUE, value |-> result])
          /\ End(UpdateCardsFinish(req.args, result))
  /\ UNCHANGED <<req, handler, calls, cardIds, info, cards, htmlString, cleaned>>

\* addNote resolves; add_card issues its follow-up query (lines 527-529)
AddNoteReply ==
  /\ pc = "await" /\ cont = "add_card:addNote"
  /\ \E noteId \in NoteIds :
       /\ replies' = Append(replies, [ok |-> TRUE, value |-> noteId])
       /\ calls' = Append(calls, [op |-> "findCards", arg |-> [query |-> NoteQuery(noteId)]])
  /\ cont' = "add_card:findCards"
  /\ UNCHANGED <<pc, req, handler, cardIds, info, cards, resp, htmlString, cleaned>>

\* the follow-up query resolves; add_card takes element 0 (lines 528-539)
AddCardFindReply ==
  /\ pc = "await" /\ cont = "add_card:findCards"
  /\ \E ids \in IdLists :
       /\ replies' = Append(replies, [ok |-> TRUE, value |-> ids])
       /\ End([kind |-> "return",
               text |-> <<"Created card with id ",
                          IF ids = <<>> THEN "undefined" ELSE ToString(ids[1])>>])
  /\ UNCHANGED <<req, handler, calls, cardIds, info, cards, htmlString, cleaned>>

\* findCards resolves inside findCardsAndOrder
FindCardsReply ==
  /\ pc = "await" /\ cont = "findCardsAndOrder:findCards"
  /\ \E ids \in IdLists :
       LET step == FindCardsContinue(ids)
       IN /\ replies' = Append(replies, [ok |-> TRUE, value |-> ids])
          /\ cardIds' = ids
          /\ IF step.kind = "return"
             THEN /\ cards' = step.cards
                  /\ resp' = FinishQuery(req, step.cards)
                  /\ pc' = "done"
                  /\ cont' = "none"
                  /\ UNCHANGED calls
             ELSE /\ calls' = Append(calls, [op |-> step.op, arg |-> step.arg])
                  /\ cont' = step.cont
                  /\ UNCHANGED <<pc, cards, resp>>
  /\ UNCHANGED <<req, handler, info, htmlString, cleaned>>

\* cardsInfo resolves inside findCardsAndOrder: project, sort, return to
\* the caller, which builds the response
CardsInfoReply ==
  /\ pc = "await" /\ cont = "findCardsAndOrder:cardsInfo"
  /\ \E recs \in InfoLists(cardIds) :
       /\ replies' = Append(replies, [ok |-> TRUE, value |-> recs])
       /\ info' = recs
       /\ cards' = Sort(ProjectAll(recs))
       /\ resp' = FinishQuery(req, cards')
  /\ pc' = "done"
  /\ cont' = "none"
  /\ UNCHANGED <<req, handler, calls, cardIds, htmlString, cleaned>>

\* the single backend call of a one-call case resolves
SimpleReply ==
  /\ pc = "await" /\ cont = "simple"
  /\ \E result \in {"r1", "r2"} :
       /\ replies' = Append(replies, [ok |-> TRUE, value |-> result])
       /\ End(CaseFinish(handler, req.args, result))
  /\ UNCHANGED <<req, handler, calls, cardIds, info, cards, htmlString, cleaned>>

\* the response is handed over; nothing of the invocation is kept
Deliver ==
  /\ pc = "done"
  /\ pc' = "idle"
  /\ req' = [kind |-> "none"]
  /\ handler' = "none"
  /\ cont' = "none"
  /\ calls' = <<>>
  /\ replies' = <<>>
  /\ cardIds' = <<>>
  /\ info' = <<>>
  /\ cards' = <<>>
  /\ resp' = [status |-> "none"]
  /\ UNCHANGED <<htmlString, cleaned>>

Next ==
  \/ ListResources
  \/ ListTools
  \/ ReadResource
  \/ CallTool
  \/ BackendError
  \/ AnswerCardsReply
  \/ AddNoteReply
  \/ AddCardFindReply
  \/ FindCardsReply
  \/ CardsInfoReply
  \/ SimpleReply
  \/ Deliver

Spec == Init /\ [][Next]_vars

-----------------------------------------------------------------------------
(* Properties of the server *)

Bijections(n) == {p \in [1..n -> 1..n] : \A i, j \in 1..n : i # j => p[i] # p[j]}

\* C1: the sequence findCardsAndOrder returns is a permutation of the
\* projected backend records, non-decreasing in due, and cards of equal due
\* keep the order the backend returned them in
C1_SortedStablePermutation ==
  (pc = "done" /\ info # <<>>) =>
    LET n == Len(info)
    IN /\ Len(cards) = n
       /\ \E p \in Bijections(n) :
            /\ \A i, j \in 1..n :
                 i < j => /\ cards[i].due <= cards[j].due
                          /\ (cards[i].due = cards[j].due => p[i] < p[j])
            /\ \A i \in 1..n : cards[i].due = info[p[i]].due
            /\ \A i \in 1..n : cards[i] = Project(info[p[i]])

\* three records came back, the first due after the second and tied with the
\* third; the result starts with the second and keeps first before third
C1_Witness ==
  /\ pc = "done" /\ Len(info) = 3
  /\ info[1].due > info[2].due /\ info[1].due = info[3].due
  /\ cards[1].cardId = info[2].cardId
  /\ cards[2].cardId = info[1].cardId
  /\ cards[3].cardId = info[3].cardId

\* the cardIds of the answers whose result equals want, in batch order
RECURSIVE IdsWhere(_, _, _)
IdsWhere(answers, result, want) ==
  IF answers = <<>> THEN <<>>
  ELSE (IF result[1] = want THEN <<answers[1].cardId>> ELSE <<>>)
       \o IdsWhere(Tail(answers), Tail(result), want)

\* C2: update_cards succeeds iff every item's result is truthy; a failure's
\* message lists exactly the cardIds of the falsy items, in batch order,
\* the whole batch having been submitted in one call; a success's text lists
\* every cardId of the batch
C2_PartialFailure ==
  (pc = "done" /\ handler = "update_cards" /\ "answers" \in DOMAIN req.args
     /\ Len(replies) = 1 /\ replies[1].ok) =>
    LET answers == req.args.answers
        result == replies[1].value
    IN /\ calls = <<[op |-> "answerCards", arg |-> [answers |-> answers]]>>
       /\ (resp.status = "ok") = (\A k \in 1..Len(answers) : result[k])
       /\ resp.status = "error" =>
            resp.message = <<"Error in tool ", "update_cards", ": ",
                             "Failed to update cards with IDs: ">>
                           \o JoinIds(IdsWhere(answers, result, FALSE))
       /\ resp.status = "ok" =>
            resp.text = <<"Updated cards ">>
                        \o JoinIds([k \in 1..Len(answers) |-> answers[k].cardId])

\* a batch of three whose second item alone failed: the error names it alone
C2_Witness ==
  /\ pc = "done" /\ handler = "update_cards" /\ "answers" \in DOMAIN req.args
  /\ Len(req.args.answers) = 3 /\ Len(replies) = 1 /\ replies[1].ok
  /\ replies[1].value = <<TRUE, FALSE, TRUE>>
  /\ req.args.answers[2].cardId \notin {req.args.answers[1].cardId, req.args.answers[3].cardId}
  /\ resp.status = "error"
  /\ resp.message[Len(resp.message)] = ToString(req.args.answers[2].cardId)
  /\ Len(resp.message) = 5

IsWrapped(r, message) ==
  /\ Len(message) > 3
  /\ SubSeq(message, 1, 3) = <<"Error in tool ", r.name, ": ">>

\* C3 as stated: every failure of a tool invocation, the absent argument bag
\* included, carries "Error in tool {name}: {underlying message}"
C3_AllFailuresWrapped ==
  (pc = "done" /\ req.kind = "call" /\ resp.status = "error") =>
    IsWrapped(req, resp.message)

\* C3 (amended): every failure raised after the argument bag was found
\* present (validation, backend error, partial batch failure, unknown tool)
\* carries "Error in tool {name}: {underlying message}"; the failure for an
\* absent argument bag leaves unwrapped, as "No arguments provided for
\* tool: {name}"
C3_FailuresWrappedUnlessNoArgs ==
  (pc = "done" /\ req.kind = "call" /\ resp.status = "error") =>
    IF req.hasArgs
    THEN IsWrapped(req, resp.message)
    ELSE resp.message = <<"No arguments provided for tool: ", req.name>>

\* a backend error during a tool call was reported in the wrapped form
C3_Witness ==
  /\ pc = "done" /\ req.kind = "call" /\ req.hasArgs
  /\ Len(replies) = 1 /\ ~replies[1].ok
  /\ resp.status = "error"
  /\ resp.message = <<"Error in tool ", req.name, ": ">> \o replies[1].error

\* C4: whatever the tool name, a call without an argument bag fails with
\* the missing-arguments error, before the name is routed on and before any
\* backend call
C4_NoArgsFailsFirst ==
  (req.kind = "call" /\ ~req.hasArgs) =>
    /\ pc = "done"
    /\ handler = "none"
    /\ calls = <<>>
    /\ resp = [status |-> "error",
               message |-> <<"No arguments provided for tool: ", req.name>>]

\* a tool without input fields and a name outside the catalog were called
\* without arguments
C4_Witness ==
  /\ pc = "done" /\ req.kind = "call" /\ ~req.hasArgs
  /\ req.name \notin CatalogNames
  /\ resp.status = "error" /\ calls = <<>>

C5_Routing(count) ==
  /\ (pc = "done" /\ req.kind = "listTools") =>
       /\ Len(resp.tools) = count
       /\ Cardinality({resp.tools[k] : k \in 1..Len(resp.tools)}) = count
  /\ (req.kind = "call" /\ req.hasArgs) =>
       IF req.name \in CatalogNames
       THEN /\ handler = req.name
            /\ pc = "done" /\ resp.status = "error" =>
                 SubSeq(resp.message, 4, Len(resp.message)) # <<"Unknown tool: ", req.name>>
       ELSE /\ handler = "default"
            /\ pc = "done" /\ calls = <<>>
            /\ resp = [status |-> "error",
                       message |-> <<"Error in tool ", req.name, ": ",
                                     "Unknown tool: ", req.name>>]

\* C5 as stated: the catalog listTools returns has 18 names; a name outside
\* it fails with the unknown-tool error and no backend call; each name of it
\* routes to its own handler and never to the unknown-tool error
C5_Catalog18 == C5_Routing(18)

\* C5 (amended): the same, the catalog listTools returns having 19 names
C5_Catalog19 == C5_Routing(19)

\* the last name of the catalog was called with arguments and reached its
\* handler, which issued its backend call
C5_Witness ==
  /\ req.kind = "call" /\ req.hasArgs
  /\ req.name = ToolCatalog[Len(ToolCatalog)]
  /\ handler = req.name
  /\ pc = "await" /\ Len(calls) = 1

\* C6: set_ease_factors with arrays of different lengths fails with the
\* validation error and calls no backend operation; with equal lengths the
\* backend is called once, with both arrays as given
C6_LengthMatch ==
  (req.kind = "call" /\ req.hasArgs /\ req.name = "set_ease_factors"
     /\ DOMAIN req.args = {"cards", "easeFactors"}) =>
    IF Len(req.args.cards) # Len(req.args.easeFactors)
    THEN /\ pc = "done"
         /\ calls = <<>>
         /\ resp = [status |-> "error",
                    message |-> <<"Error in tool ", "set_ease_factors", ": ",
                                  "Cards and easeFactors arrays must have the same length">>]
    ELSE calls = <<[op |-> "setEaseFactors",
                    arg |-> [cards |-> req.args.cards,
                             easeFactors |-> req.args.easeFactors]]>>

\* three identifiers with two values were refused without a backend call
C6_Witness ==
  /\ pc = "done" /\ req.kind = "call" /\ req.hasArgs
  /\ req.name = "set_ease_factors" /\ DOMAIN req.args = {"cards", "easeFactors"}
  /\ Len(req.args.cards) = 3 /\ Len(req.args.easeFactors) = 2
  /\ resp.status = "error" /\ calls = <<>>

\* C7: when findCards returns no identifier, findCardsAndOrder returns the
\* empty sequence, the request succeeds, and cardsInfo is not called
C7_EmptyResult ==
  (Len(replies) >= 1 /\ calls[1].op = "findCards"
     /\ replies[1].ok /\ replies[1].value = <<>>) =>
    /\ pc = "done"
    /\ Len(calls) = 1
    /\ cards = <<>>
    /\ resp.status = "ok"
    /\ resp.text = <<>>

\* a resource read whose filter matched nothing
C7_Witness ==
  /\ pc = "done" /\ req.kind = "read"
  /\ Len(replies) = 1 /\ replies[1].ok /\ replies[1].value = <<>>
  /\ resp.status = "ok" /\ Len(calls) = 1

MinOf(a, b) == IF a < b THEN a ELSE b
MaxOf(a, b) == IF a > b THEN a ELSE b

QueryToolDone ==
  /\ pc = "done" /\ req.kind = "call" /\ req.hasArgs
  /\ req.name \in {"get_due_cards", "get_new_cards"}
  /\ "num" \in DOMAIN req.args
  /\ resp.status = "ok"

\* C9 as stated: for every num, the response of get_due_cards and
\* get_new_cards holds the first min(num, n) cards of the ordered result:
\* never more than num, never fewer than min(num, n)
C9_TruncateAnyNum ==
  QueryToolDone =>
    LET num == req.args.num
        n == Len(cards)
    IN /\ resp.text = JSONstringify(SubSeq(cards, 1, MinOf(num, n)))
       /\ Len(resp.text) <= num
       /\ Len(resp.text) >= MinOf(num, n)

\* C9 (amended): for every integer num >= 0 the response holds the first
\* min(num, n) cards of the ordered result, in order; for a negative num it
\* holds the first max(n + num, 0) cards
C9_TruncateNonNegative ==
  QueryToolDone =>
    LET num == req.args.num
        n == Len(cards)
    IN IF num >= 0
       THEN /\ resp.text = JSONstringify(SubSeq(cards, 1, MinOf(num, n)))
            /\ Len(resp.text) <= num
            /\ Len(resp.text) >= MinOf(num, n)
       ELSE resp.text = JSONstringify(SubSeq(cards, 1, MaxOf(n + num, 0)))

\* two of three due cards were asked for and the first two came back
C9_Witness ==
  /\ QueryToolDone
  /\ req.args.num = 2 /\ Len(cards) = 3
  /\ Len(resp.text) = 2
  /\ resp.text[1][2] = cards[1].cardId /\ resp.text[2][2] = cards[2].cardId
  /\ cards[1].due < cards[2].due

\* the path of the URI as written: from the first '/' after the host to
\* the first '?' or '#'
RawPath(uri) ==
  LET hostStart == FindFrom(uri, 1, ":") + 3
      stop == PathEnd(uri, hostStart)
      slash == FindFrom(uri, hostStart, "/")
  IN IF slash = 0 \/ slash > stop THEN <<>> ELSE SubSeq(uri, slash, stop - 1)

\* its final segment: what follows its last '/'
RawFinalSegment(uri) ==
  LET path == RawPath(uri)
      S == {j \in 1..Len(path) : path[j] = "/"}
  IN IF S = {} THEN <<>>
     ELSE SubSeq(path, (CHOOSE m \in S : \A n \in S : n <= m) + 1, Len(path))

InQuery(cs) == cs # <<>> /\ cs[1].op = "findCards"

\* the backend calls and replies of a findCardsAndOrder invocation, as logged
C11_Log ==
  InQuery(calls) =>
    /\ Len(calls) <= 2
    /\ Len(replies) <= Len(calls)
    /\ Len(calls) <= Len(replies) + 1
    /\ Len(calls) = 2 =>
         /\ replies[1].ok
         /\ calls[2] = [op |-> "cardsInfo", arg |-> [cards |-> replies[1].value]]
    /\ \A k \in 1..Len(replies) :
         ~replies[k].ok =>
           /\ k = Len(replies)
           /\ Len(calls) = k
           /\ pc = "done"
           /\ resp.status = "error"
           /\ resp.message = IF req.kind = "call"
                             THEN <<"Error in tool ", req.name, ": ">> \o replies[k].error
                             ELSE replies[k].error
           /\ "text" \notin DOMAIN resp
           /\ cards = <<>>
    /\ (pc = "done" /\ resp.status = "ok") =>
         /\ Len(replies) = Len(calls)
         /\ \A k \in 1..Len(replies) : replies[k].ok

\* one step of a findCardsAndOrder invocation: the log of calls stays, or
\* findCards is issued first and before any reply, or cardsInfo is appended
\* in the very step in which findCards resolved successfully
C11_Step ==
  InQuery(calls') =>
    \/ calls' = calls
    \/ /\ calls = <<>> /\ replies = <<>>
       /\ Len(calls') = 1 /\ replies' = <<>>
    \/ /\ Len(calls) = 1 /\ replies = <<>>
       /\ calls' = Append(calls, calls'[2])
       /\ calls'[2].op = "cardsInfo"
       /\ Len(replies') = 1 /\ replies'[1].ok

\* C11: within one findCardsAndOrder invocation findCards is issued first
\* and cardsInfo second, each at most once, cardsInfo carrying all the
\* identifiers findCards returned in one call; when either call fails the
\* invocation ends with that error, no backend call follows the failed one,
\* and no card list is returned
C11_QueryCalls == [](C11_Log) /\ [][C11_Step]_vars

\* cardsInfo was asked for two or more identifiers in one call and failed
C11_Witness ==
  /\ pc = "done" /\ InQuery(calls)
  /\ Len(calls) = 2 /\ Len(replies) = 2
  /\ Len(replies[1].value) >= 2
  /\ calls[2].arg.cards = replies[1].value
  /\ ~replies[2].ok
  /\ resp.status = "error" /\ cards = <<>>

\* add_card issues addNote first and, once addNote resolved, findCards for
\* the note it returned; a failed addNote is followed by no call
C12_CallOrder ==
  handler = "add_card" =>
    /\ Len(calls) <= 2
    /\ calls # <<>> => calls[1].op = "addNote"
    /\ Len(calls) = 2 =>
         /\ replies # <<>> /\ replies[1].ok
         /\ calls[2] = [op |-> "findCards",
                        arg |-> [query |-> <<"n", "i", "d", ":">>
                                               \o Digits(replies[1].value)]]
    /\ (replies # <<>> /\ ~replies[1].ok) => (Len(calls) = 1 /\ pc = "done")

\* a success response of add_card names an identifier that the follow-up
\* query returned
C12_SuccessNamesReturnedCard ==
  (handler = "add_card" /\ pc = "done" /\ resp.status = "ok") =>
    /\ Len(replies) = 2 /\ replies[2].ok
    /\ \E k \in 1..Len(replies[2].value) :
         resp.text = <<"Created card with id ", ToString(replies[2].value[k])>>

\* C12: add_card issues addNote and then findCards for the returned note
\* id, in that order; a failed addNote is followed by no findCards; and
\* whenever add_card reports success, the identifier in its response is one
\* the follow-up findCards returned, whatever the backend answered, an
\* empty follow-up result included
C12_AddCard == C12_CallOrder /\ C12_SuccessNamesReturnedCard

-----------------------------------------------------------------------------
(* Normalizer runs: cleanWithRegex applied to an input, then to its own    *)
(* output.  Inputs are concatenations of markup, entity and text fragments.*)

Fragments ==
  { <<"&", "a", "m", "p", ";">>, <<"a", "m", "p", ";">>,
    <<"&", "l", "t", ";">>, <<"&", "g", "t", ";">>,
    <<"&", "n", "b", "s", "p", ";">>, <<"n", "b", "s", "p", ";">>,
    <<"b">>, <<" ">>, <<"<">>, <<">">>, <<"<", "b", ">">>, <<"<", "d", "i", "v", ">">>,
    <<"<", "S", "t", "y", "l", "e", ">">>, <<"<", "/", "s", "t", "y", "l", "e", ">">>,
    <<"[", "a", "n", "k", "i">>, <<"[", "a", "n", "k", "i", ":", "p", "l", "a", "y", ":", "x", "]">>,
    <<":", "p", "l", "a", "y", ":", "y", "]">> }

RECURSIVE Concats(_)
Concats(n) ==
  IF n = 0 THEN {<<>>}
  ELSE LET P == Concats(n - 1)
       IN P \cup {p \o f : p \in P, f \in Fragments}

Contains(s, c) == \E k \in 1..Len(s) : s[k] = c

NormInit ==
  /\ ServerIdle
  /\ htmlString \in Concats(MaxFrags)
  /\ cleaned = <<>>

\* one application of cleanWithRegex: to the input, then to the last output
Normalize ==
  /\ Len(cleaned) < 2
  /\ cleaned' = Append(cleaned,
        cleanWithRegex(IF cleaned = <<>> THEN htmlString ELSE cleaned[Len(cleaned)]))
  /\ UNCHANGED <<htmlString, serverVars>>

NormNext == Normalize

SpecNormalizer == NormInit /\ [][NormNext]_vars

\* C8 as stated: for every input, a second application of the normalizer
\* returns its argument unchanged
C8_IdempotentAll == Len(cleaned) = 2 => cleaned[2] = cleaned[1]

\* C8 (amended): for every input holding neither '&' (no encoded entity) nor
\* '[' (no playback directive), normalize(normalize(x)) = normalize(x)
C8_IdempotentPlain ==
  (Len(cleaned) = 2 /\ ~Contains(htmlString, "&") /\ ~Contains(htmlString, "["))
    => cleaned[2] = cleaned[1]

\* an entity-free input with markup was normalized twice, the first pass
\* having rewritten it
C8_Witness ==
  /\ Len(cleaned) = 2
  /\ ~Contains(htmlString, "&") /\ ~Contains(htmlString, "[")
  /\ IsPrefixAt(htmlString, 2, DivOpen)
  /\ Contains(cleaned[1], "\n")
  /\ ~Contains(cleaned[1], "<")
  /\ cleaned[2] = cleaned[1]

====
